---- MODULE Spec2Model ----
(***************************************************************************)
(* Model of src/code/main.py: the tool operations of the OpenAPI adapter,  *)
(* the request each one builds, make_api_request with its scoped HTTP      *)
(* client, and the handlers' post-processing of the result.                *)
(*                                                                         *)
(* Encoding of Python values:                                              *)
(*   - a str is a TLA+ string, an int an integer, a bool a BOOLEAN;        *)
(*   - a dict is a function whose domain is its set of keys;               *)
(*   - a value that may be None (an Optional argument, a JSON null, the    *)
(*     result of dict.get without default) is None == <<>> or Some(v);     *)
(*   - a list is a sequence.                                               *)
(* The two user-visible Chinese message fragments of user_delete are       *)
(* written in ASCII.                                                       *)
(***************************************************************************)
EXTENDS Integers, Sequences, FiniteSets, TLC

VARIABLES pc, call, step, pending, client, clients, log, resp, ret

vars == <<pc, call, step, pending, client, clients, log, resp, ret>>

\* Number of tool calls the hosting runtime may run concurrently.
NumProcs == 2

Procs == 1..NumProcs

\* The sequential specification runs one call at a time, on this process.
SeqProcs == {1}

-----------------------------------------------------------------------------
\* Python values

None == <<>>

Some(v) == <<v>>

Val(x) == x[1]

EmptyDict == [k \in {} |-> TRUE]

Put(d, k, v) == [x \in (DOMAIN d) \cup {k} |-> IF x = k THEN v ELSE d[x]]

\* d.get(k): None when the key is absent
Get(d, k) == IF k \in DOMAIN d THEN Some(d[k]) ELSE None

\* d.get(k, default)
GetOr(d, k, default) == IF k \in DOMAIN d THEN d[k] ELSE default

\* "if x is not None: d[k] = x"
PutIfNotNone(d, k, x) == IF x # None THEN Put(d, k, Val(x)) ELSE d

\* truthiness of an Optional[str]: None and "" are falsy
TruthyStr(x) == x # None /\ Val(x) # ""

EndsWith(s, suffix) ==
    /\ Len(s) >= Len(suffix)
    /\ SubSeq(s, Len(s) - Len(suffix) + 1, Len(s)) = suffix

Contains(s, t) ==
    \/ Len(t) = 0
    \/ \E i \in 1..(Len(s) - Len(t) + 1) : SubSeq(s, i, i + Len(t) - 1) = t

-----------------------------------------------------------------------------
\* Module constants and get_client

USER_AGENT == "openapi-mcp/1.0"

\* default headers of the client built by get_client
ClientHeaders == ("User-Agent" :> USER_AGENT) @@ ("Content-Type" :> "application/json")

\* user status "offline", used by user_delete's pre-step
OFFLINE == 3

\* default of user_create's gender and status arguments
DEFAULT_GENDER == 1

DEFAULT_STATUS == 1

\* code of the synthesized failure envelope
FAILURE_CODE == 500

OfflineFailPrefix == "set user offline failed: "

DeleteHint == ". Note: only offline users can be deleted; deletion may take a while."

TokenFailText == "Failed to get token"

-----------------------------------------------------------------------------
\* make_api_request: the arguments a handler passes, and the request sent

\* make_api_request(method, url, token=..., params=..., json=...)
ApiCall(method, url, token, params, json) ==
    [method |-> method, url |-> url, token |-> token, params |-> params, json |-> json]

NoCall == [method |-> "", url |-> "", token |-> None, params |-> None, json |-> None]

\* Mutant of AuthHeaders: a scheme prefix is added to the token.
AuthHeadersBearer(token) ==
    IF token # None /\ Val(token) # ""
    THEN [Authorization |-> "Bearer " \o Val(token)]
    ELSE EmptyDict

\* headers = kwargs.pop("headers", {}); if token: headers["Authorization"] = token
AuthHeaders(token) ==
    IF token # None /\ Val(token) # ""
    THEN [Authorization |-> Val(token)]
    ELSE EmptyDict

\* client.request(method, url, headers=headers, **kwargs) on the client of get_client
OutgoingRequest(c) ==
    [method |-> c.method, url |-> c.url,
     headers |-> AuthHeaders(c.token) @@ ClientHeaders,
     params |-> c.params, json |-> c.json]

OkOutcome(body) == [ok |-> TRUE, body |-> body]

FailOutcome(why, text) == [ok |-> FALSE, why |-> why, text |-> text]

\* the "except Exception as e" branch
FailureEnvelope(text) ==
    [code |-> FAILURE_CODE, action |-> "alert", message |-> text,
     data |-> None, success |-> FALSE]

\* the value make_api_request returns for an outcome of client.request,
\* raise_for_status and response.json
MakeApiResult(o) == IF o.ok THEN o.body ELSE FailureEnvelope(o.text)

Remove(cs, c) == [x \in (DOMAIN cs) \ {c} |-> cs[x]]

\* Mutant of ClientsAfterRequest: the client is closed on the success path only.
ClientsAfterRequestLeak(cs, c, o) == IF o.ok THEN Remove(cs, c) ELSE cs

\* leaving "async with await get_client() as client" closes the client on
\* the return path and on the except path alike
ClientsAfterRequest(cs, c, o) == Remove(cs, c)

\* identity of the client a new get_client() call constructs
FreshClient(cs) == CHOOSE i \in 1..(Cardinality(DOMAIN cs) + 1) : i \notin DOMAIN cs

-----------------------------------------------------------------------------
\* The tool operations: the make_api_request call each one builds from its
\* arguments a

IssueTokenRequest(a) ==
    ApiCall("POST", "/api/open/v1/token", None, None,
            Some([access_key_id |-> a.access_key_id,
                  access_key_secret |-> a.access_key_secret]))

\* params = {}; if department_id: params["id"] = department_id
DepartmentListParams(a) ==
    IF TruthyStr(a.department_id) THEN [id |-> Val(a.department_id)] ELSE EmptyDict

DepartmentListRequest(a) ==
    ApiCall("GET", "/api/open/v1/department/list", Some(a.token),
            Some(DepartmentListParams(a)), None)

DepartmentDetailRequest(a) ==
    ApiCall("GET", "/api/open/v1/department/detail", Some(a.token),
            Some([param |-> a.department_id]), None)

DepartmentCreateData(a) ==
    PutIfNotNone([name |-> a.name, parent_id |-> a.parent_id], "order", a.order)

DepartmentCreateRequest(a) ==
    ApiCall("POST", "/api/open/v1/department/create", Some(a.token), None,
            Some(DepartmentCreateData(a)))

DepartmentUpdateData(a) ==
    PutIfNotNone(PutIfNotNone([id |-> a.department_id], "name", a.name),
                 "order", a.order)

DepartmentUpdateRequest(a) ==
    ApiCall("POST", "/api/open/v1/department/update", Some(a.token), None,
            Some(DepartmentUpdateData(a)))

DepartmentDeleteRequest(a) ==
    ApiCall("POST", "/api/open/v1/department/delete", Some(a.token), None,
            Some([id |-> a.department_id]))

\* role_list passes neither params nor json
RoleListRequest(a) ==
    ApiCall("GET", "/api/open/v1/role/list", Some(a.token), None, None)

RoleGetRequest(a) ==
    ApiCall("GET", "/api/open/v1/role/get", Some(a.token),
            Some([id |-> a.role_id]), None)

RoleCreateData(a) == PutIfNotNone([name |-> a.name], "description", a.description)

RoleCreateRequest(a) ==
    ApiCall("POST", "/api/open/v1/role/create", Some(a.token), None,
            Some(RoleCreateData(a)))

RoleUpdateData(a) ==
    PutIfNotNone(PutIfNotNone([id |-> a.role_id], "name", a.name),
                 "description", a.description)

RoleUpdateRequest(a) ==
    ApiCall("POST", "/api/open/v1/role/update", Some(a.token), None,
            Some(RoleUpdateData(a)))

RoleDeleteRequest(a) ==
    ApiCall("POST", "/api/open/v1/role/delete", Some(a.token), None,
            Some([id |-> a.role_id]))

RoleMemberCreateRequest(a) ==
    ApiCall("POST", "/api/open/v1/role/member/create", Some(a.token), None,
            Some([role_id |-> a.role_id, user_ids |-> a.user_ids]))

RoleMemberDeleteRequest(a) ==
    ApiCall("POST", "/api/open/v1/role/member/delete", Some(a.token), None,
            Some([role_id |-> a.role_id, user_ids |-> a.user_ids]))

\* Mutant of UserListParams: the flag is tested for truthiness, dropping False.
UserListParamsTruthy(a) ==
    IF a.recursive # None /\ Val(a.recursive)
    THEN [department_id |-> a.department_id, recursive |-> 1]
    ELSE [department_id |-> a.department_id]

\* params = {"department_id": department_id}
\* if recursive is not None: params["recursive"] = 1 if recursive else 0
UserListParams(a) ==
    IF a.recursive # None
    THEN [department_id |-> a.department_id,
          recursive |-> IF Val(a.recursive) THEN 1 ELSE 0]
    ELSE [department_id |-> a.department_id]

UserListRequest(a) ==
    ApiCall("GET", "/api/open/v1/user/list", Some(a.token),
            Some(UserListParams(a)), None)

UserGetRequest(a) ==
    ApiCall("GET", "/api/open/v1/user/get", Some(a.token),
            Some([id |-> a.user_id]), None)

\* Mutant of UserCreateData: gender and status are left out of the payload.
UserCreateDataNoDefaults(a) ==
    PutIfNotNone(PutIfNotNone(PutIfNotNone(
        [username |-> a.username, full_name |-> a.full_name,
         department_id |-> a.department_id],
        "email", a.email), "mobile", a.mobile), "password", a.password)

\* gender and status are always part of request_data
UserCreateData(a) ==
    PutIfNotNone(PutIfNotNone(PutIfNotNone(
        [username |-> a.username, full_name |-> a.full_name,
         department_id |-> a.department_id, gender |-> a.gender,
         status |-> a.status],
        "email", a.email), "mobile", a.mobile), "password", a.password)

UserCreateRequest(a) ==
    ApiCall("POST", "/api/open/v1/user/create", Some(a.token), None,
            Some(UserCreateData(a)))

UserUpdateData(a) ==
    PutIfNotNone(PutIfNotNone(PutIfNotNone(PutIfNotNone(PutIfNotNone(PutIfNotNone(
        [id |-> a.user_id],
        "full_name", a.full_name), "email", a.email), "mobile", a.mobile),
        "department_id", a.department_id), "role_ids", a.role_ids),
        "status", a.status)

UserUpdateRequest(a) ==
    ApiCall("POST", "/api/open/v1/user/update", Some(a.token), None,
            Some(UserUpdateData(a)))

\* the arguments of user_update(token, user_id, status=status): every other
\* optional argument keeps its default None
UserUpdateArgs(token, user_id, status) ==
    [token |-> token, user_id |-> user_id, full_name |-> None, email |-> None,
     mobile |-> None, department_id |-> None, role_ids |-> None,
     status |-> Some(status)]

\* return await user_update(token, user_id, status=status)
UserSetStatusRequest(a) ==
    UserUpdateRequest(UserUpdateArgs(a.token, a.user_id, a.status))

\* status_result = await user_update(token, user_id, status=3)
UserDeleteOfflineRequest(a) ==
    UserUpdateRequest(UserUpdateArgs(a.token, a.user_id, OFFLINE))

UserDeleteRequest(a) ==
    ApiCall("POST", "/api/open/v1/user/delete", Some(a.token), None,
            Some([id |-> a.user_id]))

UserBatchGetIdRequest(a) ==
    ApiCall("POST", "/api/open/v1/user/batch_get_id", Some(a.token), None,
            Some([usernames |-> a.usernames]))

-----------------------------------------------------------------------------
\* What a handler does next: await a make_api_request call, return a value to
\* the caller, or let an exception escape to the caller

Await(req, st) == [kind |-> "await", req |-> req, step |-> st]

Return(v) == [kind |-> "return", value |-> v]

Raise(e) == [kind |-> "raise", exc |-> e]

NoReturn == [kind |-> "none"]

\* issue_token after make_api_request: the failure branch needs an "error"
\* key (or an empty result); otherwise data = result.get("data", {}) and
\* data.get(...) raises AttributeError when data is None
IssueTokenFinish(result) ==
    IF DOMAIN result = {} \/ "error" \in DOMAIN result
    THEN Return([success |-> FALSE, error |-> GetOr(result, "error", TokenFailText)])
    ELSE LET data == GetOr(result, "data", Some(EmptyDict)) IN
         IF data = None
         THEN Raise("AttributeError")
         ELSE Return([success |-> TRUE,
                      data |-> [access_token |-> Get(Val(data), "access_token"),
                                expires_in |-> Get(Val(data), "expires_in")]])

\* default of status_result.get("code", 500) in user_delete's early return
ABORT_DEFAULT_CODE == 500

\* status_result.get("code") != 0
StatusFailed(status_result) == Get(status_result, "code") # Some(0)

\* Mutant of UserDeleteAbort: the early return drops the update's message.
UserDeleteAbortNoText(status_result) ==
    [code |-> GetOr(status_result, "code", ABORT_DEFAULT_CODE), action |-> "alert",
     message |-> OfflineFailPrefix, data |-> None]

\* the envelope of user_delete's early return
UserDeleteAbort(status_result) ==
    [code |-> GetOr(status_result, "code", ABORT_DEFAULT_CODE), action |-> "alert",
     message |-> OfflineFailPrefix \o GetOr(status_result, "message", ""),
     data |-> None]

\* Mutant of UserDeleteAfterOffline: a failed pre-step does not abort, the
\* delete request is sent anyway.
UserDeleteAfterOfflineNoAbort(a, status_result) ==
    Await(UserDeleteRequest(a), "delete")

\* user_delete after the offline pre-step returned status_result
UserDeleteAfterOffline(a, status_result) ==
    IF StatusFailed(status_result)
    THEN Return(UserDeleteAbort(status_result))
    ELSE Await(UserDeleteRequest(a), "delete")

\* Mutant of UserDeleteAnnotate: the hint is never added.
UserDeleteAnnotateNever(result) == result

\* if result.get("code") != 0: result["message"] = f"{result.get('message', '')}<hint>"
UserDeleteAnnotate(result) ==
    IF Get(result, "code") # Some(0)
    THEN Put(result, "message", GetOr(result, "message", "") \o DeleteHint)
    ELSE result

\* a handler from its entry to its first await
Start(c) ==
    LET a == c.args IN
    CASE c.op = "issue_token" -> Await(IssueTokenRequest(a), "single")
      [] c.op = "department_list" -> Await(DepartmentListRequest(a), "single")
      [] c.op = "department_detail" -> Await(DepartmentDetailRequest(a), "single")
      [] c.op = "department_create" -> Await(DepartmentCreateRequest(a), "single")
      [] c.op = "department_update" -> Await(DepartmentUpdateRequest(a), "single")
      [] c.op = "department_delete" -> Await(DepartmentDeleteRequest(a), "single")
      [] c.op = "role_list" -> Await(RoleListRequest(a), "single")
      [] c.op = "role_get" -> Await(RoleGetRequest(a), "single")
      [] c.op = "role_create" -> Await(RoleCreateRequest(a), "single")
      [] c.op = "role_update" -> Await(RoleUpdateRequest(a), "single")
      [] c.op = "role_delete" -> Await(RoleDeleteRequest(a), "single")
      [] c.op = "role_member_create" -> Await(RoleMemberCreateRequest(a), "single")
      [] c.op = "role_member_delete" -> Await(RoleMemberDeleteRequest(a), "single")
      [] c.op = "user_list" -> Await(UserListRequest(a), "single")
      [] c.op = "user_get" -> Await(UserGetRequest(a), "single")
      [] c.op = "user_create" -> Await(UserCreateRequest(a), "single")
      [] c.op = "user_set_status" -> Await(UserSetStatusRequest(a), "single")
      [] c.op = "user_update" -> Await(UserUpdateRequest(a), "single")
      [] c.op = "user_delete" ->
            IF a.set_offline_first
            THEN Await(UserDeleteOfflineRequest(a), "update")
            ELSE Await(UserDeleteRequest(a), "delete")
      [] c.op = "user_batch_get_id" -> Await(UserBatchGetIdRequest(a), "single")

\* a handler from the return of the make_api_request it awaited at st to its
\* next await or its end; every handler but issue_token and user_delete
\* returns the result as it is
Resume(c, st, result) ==
    CASE c.op = "issue_token" -> IssueTokenFinish(result)
      [] c.op = "user_delete" /\ st = "update" -> UserDeleteAfterOffline(c.args, result)
      [] c.op = "user_delete" /\ st = "delete" -> Return(UserDeleteAnnotate(result))
      [] OTHER -> Return(result)

-----------------------------------------------------------------------------
\* Inputs: the calls the runtime makes and the outcomes of an HTTP request

Tokens == {"", "tk"}

OptStr == {None, Some(""), Some("x")}

OptInt == {None, Some(0), Some(5)}

OptBool == {None, Some(TRUE), Some(FALSE)}

OptList == {None, Some(<<>>), Some(<<"r1">>)}

Ops ==
    {"issue_token", "department_list", "department_detail", "department_create",
     "department_update", "department_delete", "role_list", "role_get",
     "role_create", "role_update", "role_delete", "role_member_create",
     "role_member_delete", "user_list", "user_get", "user_create",
     "user_set_status", "user_update", "user_delete", "user_batch_get_id"}

\* the argument records of each tool, from its signature
ArgsOf(op) ==
    CASE op = "issue_token" -> [access_key_id : {"ak"}, access_key_secret : {"sk"}]
      [] op = "department_list" -> [token : Tokens, department_id : OptStr]
      [] op = "department_detail" -> [token : Tokens, department_id : {"d1"}]
      [] op = "department_create" ->
            [token : Tokens, name : {"n"}, parent_id : {"d0"}, order : OptInt]
      [] op = "department_update" ->
            [token : Tokens, department_id : {"d1"}, name : OptStr, order : OptInt]
      [] op = "department_delete" -> [token : Tokens, department_id : {"d1"}]
      [] op = "role_list" -> [token : Tokens]
      [] op = "role_get" -> [token : Tokens, role_id : {"r1"}]
      [] op = "role_create" -> [token : Tokens, name : {"n"}, description : OptStr]
      [] op = "role_update" ->
            [token : Tokens, role_id : {"r1"}, name : OptStr, description : OptStr]
      [] op = "role_delete" -> [token : Tokens, role_id : {"r1"}]
      [] op = "role_member_create" ->
            [token : Tokens, role_id : {"r1"}, user_ids : {<<>>, <<"u1">>}]
      [] op = "role_member_delete" ->
            [token : Tokens, role_id : {"r1"}, user_ids : {<<>>, <<"u1">>}]
      [] op = "user_list" -> [token : Tokens, department_id : {"d1"}, recursive : OptBool]
      [] op = "user_get" -> [token : Tokens, user_id : {"u1"}]
      [] op = "user_create" ->
            [token : Tokens, username : {"un"}, full_name : {"fn"},
             department_id : {"d1"}, email : OptStr, mobile : OptStr,
             password : OptStr, gender : {DEFAULT_GENDER, 2},
             status : {DEFAULT_STATUS, 2}]
      [] op = "user_set_status" ->
            [token : Tokens, user_id : {"u1"}, status : {1, OFFLINE}]
      [] op = "user_update" ->
            [token : Tokens, user_id : {"u1"}, full_name : OptStr, email : OptStr,
             mobile : OptStr, department_id : OptStr, role_ids : OptList,
             status : OptInt]
      [] op = "user_delete" ->
            [token : Tokens, user_id : {"u1"}, set_offline_first : BOOLEAN]
      [] op = "user_batch_get_id" -> [token : Tokens, usernames : {<<>>, <<"un">>}]

Invocation(op, a) == [op |-> op, args |-> a]

TokenData == [access_token |-> "at", expires_in |-> 7200]

\* JSON bodies of 2xx responses: mappings in which each of the keys code,
\* message, data and error is present or absent (the outer None/Some of the
\* four choices below); data, when present, is null or an object
Bodies ==
    {PutIfNotNone(PutIfNotNone(PutIfNotNone(PutIfNotNone(EmptyDict,
        "code", c), "message", m), "data", d), "error", e) :
        c \in {None, Some(0), Some(1001)},
        m \in {None, Some("denied")},
        d \in {None, Some(None), Some(Some(TokenData))},
        e \in {None, Some("bad key")}}

\* the exceptions caught by make_api_request, with str(e)
Failures ==
    {FailOutcome("ConnectError", "All connection attempts failed"),
     FailOutcome("ReadTimeout", ""),
     FailOutcome("HTTPStatusError", "Server error '500 Internal Server Error'"),
     FailOutcome("JSONDecodeError", "Expecting value: line 1 column 1 (char 0)")}

Outcomes == {OkOutcome(b) : b \in Bodies} \cup Failures

\* the tools and arguments of the concurrent specification
ConcOps == {"issue_token", "role_list", "user_delete"}

ConcArgsOf(op) == {a \in ArgsOf(op) : "token" \in DOMAIN a => a.token = "tk"}

\* the request outcomes of the concurrent specification
ConcOutcomes ==
    {OkOutcome([code |-> 0, message |-> "ok", data |-> None]),
     OkOutcome([code |-> 1001, message |-> "denied", data |-> None]),
     FailOutcome("ReadTimeout", "")}

-----------------------------------------------------------------------------
\* The state machine

NoInvocation == [op |-> "none", args |-> EmptyDict]

Init ==
    /\ pc = [p \in Procs |-> "idle"]
    /\ call = [p \in Procs |-> NoInvocation]
    /\ step = [p \in Procs |-> ""]
    /\ pending = [p \in Procs |-> NoCall]
    /\ client = [p \in Procs |-> None]
    /\ clients = EmptyDict
    /\ log = [p \in Procs |-> <<>>]
    /\ resp = [p \in Procs |-> <<>>]
    /\ ret = [p \in Procs |-> NoReturn]

\* the runtime invokes tool c on p; the handler runs to its first
\* make_api_request call
Invoke(p, c) ==
    /\ pc[p] = "idle"
    /\ LET k == Start(c) IN
        /\ pc' = [pc EXCEPT ![p] = "enter"]
        /\ call' = [call EXCEPT ![p] = c]
        /\ step' = [step EXCEPT ![p] = k.step]
        /\ pending' = [pending EXCEPT ![p] = k.req]
    /\ UNCHANGED <<client, clients, log, resp, ret>>

\* async with await get_client() as client: a new client is built and entered
Acquire(p) ==
    /\ pc[p] = "enter"
    /\ LET c == FreshClient(clients) IN
        /\ clients' = Put(clients, c, [owner |-> p, calls |-> 0])
        /\ client' = [client EXCEPT ![p] = Some(c)]
    /\ pc' = [pc EXCEPT ![p] = "open"]
    /\ UNCHANGED <<call, step, pending, log, resp, ret>>

\* response = await client.request(...): the request goes out
Send(p) ==
    /\ pc[p] = "open"
    /\ LET c == Val(client[p]) IN
        clients' = [clients EXCEPT ![c].calls = @ + 1]
    /\ log' = [log EXCEPT ![p] = Append(@, OutgoingRequest(pending[p]))]
    /\ pc' = [pc EXCEPT ![p] = "sent"]
    /\ UNCHANGED <<call, step, pending, client, resp, ret>>

\* the request ends: a 2xx response with a JSON body, or an exception from
\* client.request, raise_for_status or response.json
Receive(p, o) ==
    /\ pc[p] = "sent"
    /\ resp' = [resp EXCEPT ![p] = Append(@, o)]
    /\ pc' = [pc EXCEPT ![p] = "got"]
    /\ UNCHANGED <<call, step, pending, client, clients, log, ret>>

\* make_api_request leaves the async with block and returns; the handler
\* runs on to its next make_api_request call or to its end
Release(p) ==
    /\ pc[p] = "got"
    /\ LET o == resp[p][Len(resp[p])]
           k == Resume(call[p], step[p], MakeApiResult(o))
       IN  /\ clients' = ClientsAfterRequest(clients, Val(client[p]), o)
           /\ client' = [client EXCEPT ![p] = None]
           /\ IF k.kind = "await"
              THEN /\ pc' = [pc EXCEPT ![p] = "enter"]
                   /\ step' = [step EXCEPT ![p] = k.step]
                   /\ pending' = [pending EXCEPT ![p] = k.req]
                   /\ ret' = ret
              ELSE /\ pc' = [pc EXCEPT ![p] = "done"]
                   /\ step' = step
                   /\ pending' = [pending EXCEPT ![p] = NoCall]
                   /\ ret' = [ret EXCEPT ![p] = k]
    /\ UNCHANGED <<call, log, resp>>

\* the caller has the outcome; p is free for the next call
Reset(p) ==
    /\ pc[p] = "done"
    /\ pc' = [pc EXCEPT ![p] = "idle"]
    /\ call' = [call EXCEPT ![p] = NoInvocation]
    /\ step' = [step EXCEPT ![p] = ""]
    /\ log' = [log EXCEPT ![p] = <<>>]
    /\ resp' = [resp EXCEPT ![p] = <<>>]
    /\ ret' = [ret EXCEPT ![p] = NoReturn]
    /\ UNCHANGED <<pending, client, clients>>

\* one call at a time, every operation with every argument combination
Next ==
    \E p \in SeqProcs :
        \/ \E op \in Ops : \E a \in ArgsOf(op) : Invoke(p, Invocation(op, a))
        \/ Acquire(p)
        \/ Send(p)
        \/ \E o \in Outcomes : Receive(p, o)
        \/ Release(p)
        \/ Reset(p)

Spec == Init /\ [][Next]_vars

\* the event loop runs every handler that can run, and a request always
\* ends: with a response or, after the client's 30 s timeout, with an
\* exception
Progress(p) ==
    \/ Acquire(p)
    \/ Send(p)
    \/ \E o \in Outcomes : Receive(p, o)
    \/ Release(p)

FairSpec == Spec /\ \A p \in SeqProcs : WF_vars(Progress(p))

\* concurrent calls
ConcNext ==
    \E p \in Procs :
        \/ \E op \in ConcOps : \E a \in ConcArgsOf(op) : Invoke(p, Invocation(op, a))
        \/ Acquire(p)
        \/ Send(p)
        \/ \E o \in ConcOutcomes : Receive(p, o)
        \/ Release(p)
        \/ Reset(p)

ConcSpec == Init /\ [][ConcNext]_vars

-----------------------------------------------------------------------------
\* Vocabulary of the properties

UpdateUrl == "/api/open/v1/user/update"

DeleteUrl == "/api/open/v1/user/delete"

\* the query parameters or JSON body of a sent request
Payload(r) ==
    IF r.json # None THEN Val(r.json)
    ELSE IF r.params # None THEN Val(r.params)
    ELSE EmptyDict

\* what the i-th make_api_request call of p returned
ApiResultOf(p, i) == MakeApiResult(resp[p][i])

AllRequestsFailed(p) == \A i \in 1..Len(resp[p]) : ~resp[p][i].ok

IsUserDelete(p) == call[p].op = "user_delete"

OfflineFirst(p) == IsUserDelete(p) /\ call[p].args.set_offline_first

\* the requests a tool builds itself: all of them, but for user_delete's
\* pre-step, which is a user_update call with status provided
OwnRequests(p) ==
    {i \in 1..Len(log[p]) : ~(IsUserDelete(p) /\ log[p][i].url = UpdateUrl)}

\* (argument, key on the wire) of each optional parameter named by the signatures
OptionalParams(op) ==
    CASE op = "department_list" -> {<<"department_id", "id">>}
      [] op = "department_create" -> {<<"order", "order">>}
      [] op = "department_update" -> {<<"name", "name">>, <<"order", "order">>}
      [] op = "role_create" -> {<<"description", "description">>}
      [] op = "role_update" -> {<<"name", "name">>, <<"description", "description">>}
      [] op = "user_list" -> {<<"recursive", "recursive">>}
      [] op = "user_create" ->
            {<<"email", "email">>, <<"mobile", "mobile">>, <<"password", "password">>}
      [] op = "user_update" ->
            {<<"full_name", "full_name">>, <<"email", "email">>, <<"mobile", "mobile">>,
             <<"department_id", "department_id">>, <<"role_ids", "role_ids">>,
             <<"status", "status">>}
      [] OTHER -> {}

\* keys on the wire of each tool's required parameters (the token travels
\* in a header)
RequiredKeys(op) ==
    CASE op = "issue_token" -> {"access_key_id", "access_key_secret"}
      [] op \in {"department_list", "role_list"} -> {}
      [] op = "department_detail" -> {"param"}
      [] op \in {"department_create"} -> {"name", "parent_id"}
      [] op \in {"department_update", "department_delete", "role_get", "role_update",
                 "role_delete", "user_get", "user_update", "user_delete"} -> {"id"}
      [] op = "role_create" -> {"name"}
      [] op \in {"role_member_create", "role_member_delete"} -> {"role_id", "user_ids"}
      [] op = "user_list" -> {"department_id"}
      [] op = "user_create" -> {"username", "full_name", "department_id"}
      [] op = "user_set_status" -> {"id", "status"}
      [] op = "user_batch_get_id" -> {"usernames"}

\* every optional argument of the call of p is at its default
OnlyRequired(p) ==
    LET op == call[p].op
        a == call[p].args
    IN  /\ op # "none"
        /\ \A pr \in OptionalParams(op) : a[pr[1]] = None
        /\ op = "user_create" => a.gender = DEFAULT_GENDER /\ a.status = DEFAULT_STATUS
        /\ op = "user_delete" => a.set_offline_first

-----------------------------------------------------------------------------
\* C1 (as claimed): when every backend request of a call failed, the call
\* returns a mapping with success = false, code = 500, action = "alert" and a
\* non-empty message, and raises nothing.
C1_FailureGivesAlertEnvelope ==
    \A p \in Procs :
        (pc[p] = "done" /\ AllRequestsFailed(p)) =>
            /\ ret[p].kind = "return"
            /\ Get(ret[p].value, "success") = Some(FALSE)
            /\ Get(ret[p].value, "code") = Some(500)
            /\ Get(ret[p].value, "action") = Some("alert")
            /\ "message" \in DOMAIN ret[p].value
            /\ ret[p].value.message # ""

\* the offline pre-step of p's user_delete returned code 0
OfflineSucceeded(p) ==
    /\ OfflineFirst(p)
    /\ Len(resp[p]) >= 1
    /\ Get(ApiResultOf(p, 1), "code") = Some(0)

\* C2 (as claimed): after an offline pre-step with code 0 the delete request
\* is issued and the returned message ends with the deletion hint, whatever
\* the delete request's outcome.
C2_HintOnEveryDeleteOutcome ==
    \A p \in Procs :
        (pc[p] = "done" /\ OfflineSucceeded(p)) =>
            /\ Len(log[p]) = 2
            /\ log[p][2].method = "POST" /\ log[p][2].url = DeleteUrl
            /\ ret[p].kind = "return"
            /\ "message" \in DOMAIN ret[p].value
            /\ EndsWith(ret[p].value.message, DeleteHint)

\* C2 (amended): after an offline pre-step with code 0 the delete request is
\* issued; the delete result is returned with the deletion hint appended to
\* its message when its code is not 0 (or absent), and unchanged, without the
\* hint, when its code is 0.
C2_HintOnFailedDeleteOnly ==
    \A p \in Procs :
        (pc[p] = "done" /\ OfflineSucceeded(p)) =>
            /\ Len(log[p]) = 2
            /\ log[p][2].method = "POST" /\ log[p][2].url = DeleteUrl
            /\ ret[p].kind = "return"
            /\ LET r == ApiResultOf(p, 2)
                   v == ret[p].value
               IN  IF Get(r, "code") = Some(0)
                   THEN v = r
                   ELSE /\ DOMAIN v = DOMAIN r \cup {"message"}
                        /\ \A k \in DOMAIN r \ {"message"} : v[k] = r[k]
                        /\ v.message = GetOr(r, "message", "") \o DeleteHint

\* C2 witness: a user_delete whose pre-step succeeded and whose delete was
\* refused has returned the annotated message.
C2_Witness ==
    \E p \in Procs :
        /\ pc[p] = "done" /\ OfflineSucceeded(p)
        /\ Len(resp[p]) = 2
        /\ resp[p][2].ok
        /\ Get(ApiResultOf(p, 2), "code") = Some(1001)
        /\ ret[p].value.message = "denied" \o DeleteHint

\* the offline pre-step of p's user_delete returned a non-zero code
OfflineRefused(p) ==
    /\ OfflineFirst(p)
    /\ Len(resp[p]) >= 1
    /\ "code" \in DOMAIN ApiResultOf(p, 1)
    /\ ApiResultOf(p, 1).code # 0

\* C3: after an offline pre-step with a non-zero code no delete request is
\* issued in that call, and the call returns an alert envelope with data
\* null, the pre-step's code and a message containing the pre-step's message.
C3_RefusedOfflineAborts ==
    \A p \in Procs :
        OfflineRefused(p) =>
            /\ \A i \in 1..Len(log[p]) : log[p][i].url # DeleteUrl
            /\ Len(log[p]) = 1
            /\ pc[p] \in {"got", "done"}
            /\ pc[p] = "done" =>
                /\ ret[p].kind = "return"
                /\ Get(ret[p].value, "action") = Some("alert")
                /\ Get(ret[p].value, "data") = Some(None)
                /\ Get(ret[p].value, "code") = Some(ApiResultOf(p, 1).code)
                /\ "message" \in DOMAIN ret[p].value
                /\ Contains(ret[p].value.message, GetOr(ApiResultOf(p, 1), "message", ""))

\* C3 witness: a user_delete has returned after the backend refused the
\* offline pre-step with a business error and a message.
C3_Witness ==
    \E p \in Procs :
        /\ pc[p] = "done" /\ OfflineRefused(p)
        /\ resp[p][1].ok
        /\ Get(ApiResultOf(p, 1), "message") = Some("denied")

\* the value an optional argument has on the wire
WireValue(arg, v) == IF arg = "recursive" THEN (IF v THEN 1 ELSE 0) ELSE v

\* C4 (as claimed): an optional parameter given a value, falsy values
\* included, is in the outgoing payload under its key with that value.
C4_ProvidedOptionalIsSent ==
    \A p \in Procs :
        Len(log[p]) >= 1 =>
            \A pr \in OptionalParams(call[p].op) :
                LET x == call[p].args[pr[1]]
                    d == Payload(log[p][1])
                IN  x # None =>
                        /\ pr[2] \in DOMAIN d
                        /\ d[pr[2]] = WireValue(pr[1], Val(x))

C6_BodyPassedThrough ==
    \A p \in Procs :
        (/\ pc[p] = "done"
         /\ call[p].op \notin {"user_delete", "user_set_status"}
         /\ resp[p][Len(resp[p])].ok) =>
            LET b == resp[p][Len(resp[p])].body IN
            /\ ret[p].kind = "return"
            /\ DOMAIN ret[p].value = DOMAIN b
            /\ \A k \in DOMAIN b : ret[p].value[k] = b[k]
            /\ (call[p].op = "issue_token" /\ "code" \in DOMAIN b /\ b.code # 0) =>
                    Get(ret[p].value, "success") # Some(TRUE)

\* the token argument of p's call; issue_token has none
HasToken(p) == "token" \in DOMAIN call[p].args

\* C7: every request of a call with a non-empty token carries exactly that
\* token as its Authorization header; a request made without a token
\* (issue_token) carries no Authorization header.
C7_TokenVerbatim ==
    \A p \in Procs :
        \A i \in 1..Len(log[p]) :
            LET h == log[p][i].headers IN
            /\ (HasToken(p) /\ call[p].args.token # "") =>
                    /\ "Authorization" \in DOMAIN h
                    /\ h["Authorization"] = call[p].args.token
            /\ ~HasToken(p) => "Authorization" \notin DOMAIN h

\* C7 witness: a request with a non-empty token has been sent.
C7_Witness ==
    \E p \in Procs :
        /\ HasToken(p) /\ call[p].args.token = "tk"
        /\ Len(log[p]) >= 1
        /\ log[p][1].headers["Authorization"] = "tk"

IsOfflineUpdate(r, a) ==
    /\ r.method = "POST" /\ r.url = UpdateUrl
    /\ r.json = Some([id |-> a.user_id, status |-> 3])

IsDelete(r, a) ==
    /\ r.method = "POST" /\ r.url = DeleteUrl
    /\ r.json = Some([id |-> a.user_id])

\* the requests of a user_delete call so far, and its end
UserDeleteSequence(p) ==
    LET a == call[p].args
        n == Len(log[p])
    IN  /\ Len(resp[p]) <= n
        /\ IF a.set_offline_first
           THEN /\ n <= 2
                /\ n >= 1 => IsOfflineUpdate(log[p][1], a)
                /\ n = 2 => /\ IsDelete(log[p][2], a)
                            /\ Len(resp[p]) >= 1
                            /\ Get(ApiResultOf(p, 1), "code") = Some(0)
           ELSE /\ n <= 1
                /\ n = 1 => IsDelete(log[p][1], a)
        /\ pc[p] = "done" =>
                /\ ret[p].kind = "return"
                /\ Len(resp[p]) = n
                /\ IF a.set_offline_first
                   THEN \/ /\ n = 1
                           /\ Get(ApiResultOf(p, 1), "code") # Some(0)
                           /\ Get(ret[p].value, "action") = Some("alert")
                        \/ n = 2
                   ELSE n = 1

\* C8: a user_delete call sends a prefix of <update to status 3, delete>,
\* each at most once and the delete only after the update's response, and
\* always ends: in ABORT after a failed update (one request) or in RETURN
\* after the delete's response (two requests); without the pre-step it sends
\* the delete alone.
C8_UserDeleteStateMachine ==
    /\ [](\A p \in Procs : IsUserDelete(p) => UserDeleteSequence(p))
    /\ \A p \in Procs : (IsUserDelete(p) /\ pc[p] # "idle") ~> (pc[p] = "done")

\* C8 witness: a user_delete with the pre-step has ended in RETURN after its
\* two requests.
C8_Witness ==
    \E p \in Procs :
        /\ OfflineFirst(p)
        /\ pc[p] = "done"
        /\ Len(log[p]) = 2
        /\ Len(resp[p]) = 2

\* C9: user_list sends recursive = 1 for True, recursive = 0 for False and no
\* recursive key for None; department_id is sent in all three cases.
C9_RecursiveFlag ==
    \A p \in Procs :
        (call[p].op = "user_list" /\ Len(log[p]) >= 1) =>
            LET q == log[p][1].params
                f == call[p].args.recursive
            IN  /\ q # None
                /\ Get(Val(q), "department_id") = Some(call[p].args.department_id)
                /\ f = Some(TRUE) => Get(Val(q), "recursive") = Some(1)
                /\ f = Some(FALSE) => Get(Val(q), "recursive") = Some(0)
                /\ f = None => DOMAIN Val(q) = {"department_id"}

\* C9 witness: user_list was sent with recursive = False.
C9_Witness ==
    \E p \in Procs :
        /\ call[p].op = "user_list"
        /\ call[p].args.recursive = Some(FALSE)
        /\ Len(log[p]) = 1
        /\ Val(log[p][1].params).recursive = 0

\* the calls inside make_api_request's async with block
InFlight == {p \in Procs : pc[p] \in {"open", "sent", "got"}}

====
